---------------------------- MODULE Spec2Model ----------------------------
(***************************************************************************)
(* A model of the two data structures of the repository:                   *)
(*                                                                         *)
(*   src/src/binary_search_tree.rs  a persistent binary search tree whose  *)
(*                                  nodes live behind Rc and are shared    *)
(*                                  between the versions of the tree;      *)
(*   src/src/heap.rs                a binary max-heap over a Vec.          *)
(*                                                                         *)
(* The tree is modelled over an explicit node store: every Rc::new appends *)
(* one node record to `store`, and a tree value is either Empty or the     *)
(* index of its root node.  Two tree values are the same Rc exactly when   *)
(* they are the same index, so structural sharing is visible in the model. *)
(***************************************************************************)
EXTENDS Integers, Sequences, FiniteSets, Bags, TLC

VARIABLES
    store,      \* every node ever allocated by Rc::new, in allocation order
    versions,   \* the tree values the program holds (all versions stay alive)
    hist,       \* hist[i]: the calls that derived versions[i] from new()
    last,       \* the most recent insert/delete call and its outcome
    nops,       \* number of insert/delete calls made after construction
    panicked    \* TRUE once a call has hit todo!()

treeVars == <<store, versions, hist, last, nops, panicked>>

----------------------------------------------------------------------------
(* Bounds of the model *)

\* keys are 1..MaxKey
MaxKey == 4
\* the tree a behaviour starts from is built by at most MaxInit inserts
MaxInit == 4
\* number of further insert/delete calls in a behaviour
MaxOps == 1

Keys == 1..MaxKey

\* An item carries a payload besides the key it is ordered by, so that two
\* items that compare equal can still be told apart.
Payloads == {"a", "b"}

----------------------------------------------------------------------------
(* The ordering relation: PartialOrd::partial_cmp *)

\* a key that is unordered with every key, itself included (like f64::NAN)
NaN == 0

PartialKeys == Keys \cup {NaN}

PartialCmp(a, b) ==
    IF a = NaN \/ b = NaN THEN "None"
    ELSE IF a < b THEN "Less"
    ELSE IF a > b THEN "Greater"
    ELSE "Equal"

Item(k, p) == [key |-> k, payload |-> p]

Items == {Item(k, p) : k \in Keys, p \in Payloads}
PartialItems == {Item(k, p) : k \in PartialKeys, p \in Payloads}

----------------------------------------------------------------------------
(* enum BinarySearchTree<T> { Empty, Node(Rc<Node<T>>) } *)

Empty == 0

\* Option::None, as returned by find and smallest
None == [none |-> TRUE]

is_empty(t) == t = Empty

\* What a call that may allocate leaves behind: the store after the call and
\* a tree value, with kind "some" (a tree is returned), "none" (delete's
\* Option::None) or "panic" (the call hit todo!()).
Some(s, t) == [store |-> s, tree |-> t, kind |-> "some"]
NoTree(s)  == [store |-> s, tree |-> Empty, kind |-> "none"]

\* todo!(), returning Option::None
todo_returns_none(s) == NoTree(s)

\* todo!(): the arm taken when partial_cmp returns None
todo(s) == [store |-> s, tree |-> Empty, kind |-> "panic"]

\* Rc::new(Node { item, left, right }): a fresh node, never an existing one
RcNew(s, item, left, right) ==
    Some(Append(s, [item |-> item, left |-> left, right |-> right]), Len(s) + 1)

make_leaf(s, item) == RcNew(s, item, Empty, Empty)

\* clone, as a copy of every node of the tree
RECURSIVE clone_deep(_, _)
clone_deep(s, t) ==
    IF t = Empty THEN Some(s, Empty)
    ELSE LET l == clone_deep(s, s[t].left)
             r == clone_deep(l.store, s[t].right)
         IN  RcNew(r.store, s[t].item, l.tree, r.tree)

\* impl Clone: Empty, or Rc::clone of the root, which is the same node
clone(s, t) == Some(s, t)

\* find, descending to the wrong side
RECURSIVE find_wrong_side(_, _, _)
find_wrong_side(s, t, key) ==
    IF is_empty(t) THEN None
    ELSE LET node == s[t]
             c    == PartialCmp(node.item.key, key)
         IN  CASE c = "Equal"   -> node.item
               [] c = "Greater" -> find_wrong_side(s, node.right, key)
               [] c = "Less"    -> find_wrong_side(s, node.left, key)
               [] c = "None"    -> None

RECURSIVE find(_, _, _)
find(s, t, key) ==
    IF is_empty(t) THEN None
    ELSE LET node == s[t]
             c    == PartialCmp(node.item.key, key)
         IN  CASE c = "Equal"   -> node.item
               [] c = "Greater" -> find(s, node.left, key)
               [] c = "Less"    -> find(s, node.right, key)
               [] c = "None"    -> None

\* insert, with a lesser item sent right and a greater one left
RECURSIVE insert_wrong_side(_, _, _)
insert_wrong_side(s, t, item) ==
    IF is_empty(t) THEN make_leaf(s, item)
    ELSE LET node == s[t]
             c    == PartialCmp(item.key, node.item.key)
         IN  CASE c = "None"  -> todo(s)
               [] c = "Equal" ->
                    LET l == clone(s, node.left)
                        r == clone(l.store, node.right)
                    IN  RcNew(r.store, item, l.tree, r.tree)
               [] c = "Greater"  ->
                    LET l == insert_wrong_side(s, node.left, item)
                        r == clone(l.store, node.right)
                    IN  IF l.kind = "panic" THEN l
                        ELSE RcNew(r.store, node.item, l.tree, r.tree)
               [] c = "Less" ->
                    LET l == clone(s, node.left)
                        r == insert_wrong_side(l.store, node.right, item)
                    IN  IF r.kind = "panic" THEN r
                        ELSE RcNew(r.store, node.item, l.tree, r.tree)

\* insert, keeping the old item where the new one compares equal
RECURSIVE insert_keeps_old_item(_, _, _)
insert_keeps_old_item(s, t, item) ==
    IF is_empty(t) THEN make_leaf(s, item)
    ELSE LET node == s[t]
             c    == PartialCmp(item.key, node.item.key)
         IN  CASE c = "None"  -> todo(s)
               [] c = "Equal" ->
                    LET l == clone(s, node.left)
                        r == clone(l.store, node.right)
                    IN  RcNew(r.store, node.item, l.tree, r.tree)
               [] c = "Less"  ->
                    LET l == insert_keeps_old_item(s, node.left, item)
                        r == clone(l.store, node.right)
                    IN  IF l.kind = "panic" THEN l
                        ELSE RcNew(r.store, node.item, l.tree, r.tree)
               [] c = "Greater" ->
                    LET l == clone(s, node.left)
                        r == insert_keeps_old_item(l.store, node.right, item)
                    IN  IF r.kind = "panic" THEN r
                        ELSE RcNew(r.store, node.item, l.tree, r.tree)

\* The fields of the Node literals are evaluated in the order written:
\* item, left, right.
RECURSIVE insert(_, _, _)
insert(s, t, item) ==
    IF is_empty(t) THEN make_leaf(s, item)
    ELSE LET node == s[t]
             c    == PartialCmp(item.key, node.item.key)
         IN  CASE c = "None"  -> todo(s)
               [] c = "Equal" ->
                    LET l == clone(s, node.left)
                        r == clone(l.store, node.right)
                    IN  RcNew(r.store, item, l.tree, r.tree)
               [] c = "Less"  ->
                    LET l == insert(s, node.left, item)
                        r == clone(l.store, node.right)
                    IN  IF l.kind = "panic" THEN l
                        ELSE RcNew(r.store, node.item, l.tree, r.tree)
               [] c = "Greater" ->
                    LET l == clone(s, node.left)
                        r == insert(l.store, node.right, item)
                    IN  IF r.kind = "panic" THEN r
                        ELSE RcNew(r.store, node.item, l.tree, r.tree)

\* smallest, taking the item of the subtree's root
smallest_root(s, t) == IF is_empty(t) THEN None ELSE s[t].item

RECURSIVE smallest(_, _)
smallest(s, t) ==
    IF is_empty(t) THEN None
    ELSE IF is_empty(s[t].left) THEN s[t].item
    ELSE smallest(s, s[t].left)

\* Try, with inner.unwrap_or(Empty) where inner? is meant
Try_unwrap_or_empty(inner, s, item, left, right) ==
    IF inner.kind = "panic" THEN inner
    ELSE RcNew(s, item, left, right)

\* `inner?` inside Some(Node(Rc::new(Node { .. }))): a None (or a panic) of
\* the inner delete is the result of the whole call, nothing is allocated.
Try(inner, s, item, left, right) ==
    IF inner.kind # "some" THEN inner
    ELSE RcNew(s, item, left, right)

RECURSIVE delete(_, _, _)

\* delete, with the arm for a smaller key a copy of the arm for a greater one
delete_copied_arm(s, t, key) ==
    IF is_empty(t) THEN NoTree(s)
    ELSE LET node == s[t]
             c    == PartialCmp(node.item.key, key)
         IN  CASE c = "None" -> todo(s)
               [] c = "Equal" /\ is_empty(node.left) -> clone(s, node.right)
               [] c = "Equal" /\ ~is_empty(node.left) /\ is_empty(node.right) ->
                    clone(s, node.left)
               [] c = "Equal" /\ ~is_empty(node.left) /\ ~is_empty(node.right) ->
                    LET x == smallest(s, node.right)
                        l == clone(s, node.left)
                        r == delete(l.store, node.right, x.key)
                    IN  Try(r, r.store, x, l.tree, r.tree)
               [] c \in {"Less", "Greater"} ->
                    LET l == clone(s, node.left)
                        r == delete(l.store, node.right, key)
                    IN  Try(r, r.store, node.item, l.tree, r.tree)

\* delete, returning the (empty) left subtree where the right one is meant
delete_returns_left(s, t, key) ==
    IF is_empty(t) THEN NoTree(s)
    ELSE LET node == s[t]
             c    == PartialCmp(node.item.key, key)
         IN  CASE c = "None" -> todo(s)
               [] c = "Equal" /\ is_empty(node.left) -> clone(s, node.left)
               [] c = "Equal" /\ ~is_empty(node.left) /\ is_empty(node.right) ->
                    clone(s, node.left)
               [] c = "Equal" /\ ~is_empty(node.left) /\ ~is_empty(node.right) ->
                    LET x == smallest(s, node.right)
                        l == clone(s, node.left)
                        r == delete(l.store, node.right, x.key)
                    IN  Try(r, r.store, x, l.tree, r.tree)
               [] c = "Less" ->
                    LET l == clone(s, node.left)
                        r == delete(l.store, node.right, key)
                    IN  Try(r, r.store, node.item, l.tree, r.tree)
               [] c = "Greater" ->
                    LET l == delete(s, node.left, key)
                        r == clone(l.store, node.right)
                    IN  Try(l, r.store, node.item, l.tree, r.tree)

delete(s, t, key) ==
    IF is_empty(t) THEN NoTree(s)
    ELSE LET node == s[t]
             c    == PartialCmp(node.item.key, key)
         IN  CASE c = "None" -> todo(s)
               [] c = "Equal" /\ is_empty(node.left) -> clone(s, node.right)
               [] c = "Equal" /\ ~is_empty(node.left) /\ is_empty(node.right) ->
                    clone(s, node.left)
               [] c = "Equal" /\ ~is_empty(node.left) /\ ~is_empty(node.right) ->
                    LET x == smallest(s, node.right)
                        l == clone(s, node.left)
                        r == delete(l.store, node.right, x.key)
                    IN  Try(r, r.store, x, l.tree, r.tree)
               [] c = "Less" ->
                    LET l == clone(s, node.left)
                        r == delete(l.store, node.right, key)
                    IN  Try(r, r.store, node.item, l.tree, r.tree)
               [] c = "Greater" ->
                    LET l == delete(s, node.left, key)
                        r == clone(l.store, node.right)
                    IN  Try(l, r.store, node.item, l.tree, r.tree)

----------------------------------------------------------------------------
(* The number of times each recursive function is entered by one call of   *)
(* it from outside, the entry from outside included.                       *)

RECURSIVE find_calls(_, _, _)
find_calls(s, t, key) ==
    IF is_empty(t) THEN 1
    ELSE LET node == s[t]
             c    == PartialCmp(node.item.key, key)
         IN  CASE c = "Equal"   -> 1
               [] c = "Greater" -> 1 + find_calls(s, node.left, key)
               [] c = "Less"    -> 1 + find_calls(s, node.right, key)
               [] c = "None"    -> 1

RECURSIVE insert_calls(_, _, _)
insert_calls(s, t, item) ==
    IF is_empty(t) THEN 1
    ELSE LET node == s[t]
             c    == PartialCmp(item.key, node.item.key)
         IN  CASE c = "None"    -> 1
               [] c = "Equal"   -> 1
               [] c = "Less"    -> 1 + insert_calls(s, node.left, item)
               [] c = "Greater" -> 1 + insert_calls(s, node.right, item)

RECURSIVE smallest_calls(_, _)
smallest_calls(s, t) ==
    IF is_empty(t) THEN 1
    ELSE IF is_empty(s[t].left) THEN 1
    ELSE 1 + smallest_calls(s, s[t].left)

\* the entries of delete, those that remove the successor from the right
\* subtree included
RECURSIVE delete_calls(_, _, _)
delete_calls(s, t, key) ==
    IF is_empty(t) THEN 1
    ELSE LET node == s[t]
             c    == PartialCmp(node.item.key, key)
         IN  CASE c = "None" -> 1
               [] c = "Equal" /\ is_empty(node.left) -> 1
               [] c = "Equal" /\ ~is_empty(node.left) /\ is_empty(node.right) -> 1
               [] c = "Equal" /\ ~is_empty(node.left) /\ ~is_empty(node.right) ->
                    1 + delete_calls(s, node.right, smallest(s, node.right).key)
               [] c = "Less"    -> 1 + delete_calls(s, node.right, key)
               [] c = "Greater" -> 1 + delete_calls(s, node.left, key)

----------------------------------------------------------------------------
(* Construction: new() followed by a chain of inserts *)

new == Empty

\* BinarySearchTree::new().insert(q[1]).insert(q[2])...
RECURSIVE Build(_)
Build(q) ==
    IF q = <<>> THEN Some(<<>>, new)
    ELSE LET b == Build(SubSeq(q, 1, Len(q) - 1))
         IN  IF b.kind = "panic" THEN b ELSE insert(b.store, b.tree, q[Len(q)])

\* the calls of h made one after the other on the result of the one before,
\* starting from new()
RECURSIVE Replay(_)
Replay(h) ==
    IF h = <<>> THEN Some(<<>>, new)
    ELSE LET b == Replay(SubSeq(h, 1, Len(h) - 1))
             c == h[Len(h)]
         IN  IF c[1] = "insert" THEN insert(b.store, b.tree, c[2])
             ELSE delete(b.store, b.tree, c[2])

\* sequences of items with pairwise distinct keys, of length at most n
DistinctSeqs(K, n) ==
    {q \in UNION {[1..m -> K] : m \in 0..n} :
        \A i, j \in 1..Len(q) : i # j => q[i] # q[j]}

\* the keys of tests::delete_root_of_deep_tree, in the order inserted
TestTreeKeys == <<50, 25, 75, 10, 40, 60, 90>>

InitialItems(K) ==
    {[i \in 1..Len(q) |-> Item(q[i], "a")] :
        q \in DistinctSeqs(K, MaxInit) \cup {TestTreeKeys}}

NoCall == [op |-> "new"]

InitOver(K) ==
    \E q \in InitialItems(K) :
        LET b == Build(q)
        IN  /\ b.kind = "some"
            /\ store = b.store
            /\ versions = <<b.tree>>
            /\ hist = <<[i \in 1..Len(q) |-> <<"insert", q[i]>>]>>
            /\ last = NoCall
            /\ nops = 0
            /\ panicked = FALSE

----------------------------------------------------------------------------
(* The calls a program makes on the versions it holds *)

\* What is remembered of a call: the tree it was made on, its argument, the
\* number of nodes allocated before it, and what it returned.
Call(op, src, arg, r) ==
    [op |-> op, src |-> src, arg |-> arg, base |-> Len(store),
     outcome |-> r.kind, tree |-> r.tree]

\* InsertCall, the tree returned stored over the version it was made on
InsertCallInPlace(v, item) ==
    /\ ~panicked
    /\ nops < MaxOps
    /\ LET r == insert(store, versions[v], item)
       IN  /\ panicked' = (r.kind = "panic")
           /\ store' = r.store
           /\ versions' = IF r.kind = "some" THEN [versions EXCEPT ![v] = r.tree]
                          ELSE versions
           /\ hist' = IF r.kind = "some"
                      THEN [hist EXCEPT ![v] = Append(hist[v], <<"insert", item>>)]
                      ELSE hist
           /\ last' = Call("insert", versions[v], item, r)
    /\ nops' = nops + 1

\* versions[v].insert(item), the tree returned kept as a new version
InsertCall(v, item) ==
    /\ ~panicked
    /\ nops < MaxOps
    /\ LET r == insert(store, versions[v], item)
       IN  /\ panicked' = (r.kind = "panic")
           /\ store' = r.store
           /\ versions' = IF r.kind = "some" THEN Append(versions, r.tree)
                          ELSE versions
           /\ hist' = IF r.kind = "some"
                      THEN Append(hist, Append(hist[v], <<"insert", item>>))
                      ELSE hist
           /\ last' = Call("insert", versions[v], item, r)
    /\ nops' = nops + 1

\* versions[v].delete(&key), a Some(tree) kept as a new version
DeleteCall(v, key) ==
    /\ ~panicked
    /\ nops < MaxOps
    /\ LET r == delete(store, versions[v], key)
       IN  /\ panicked' = (r.kind = "panic")
           /\ store' = r.store
           /\ versions' = IF r.kind = "some" THEN Append(versions, r.tree)
                          ELSE versions
           /\ hist' = IF r.kind = "some"
                      THEN Append(hist, Append(hist[v], <<"delete", key>>))
                      ELSE hist
           /\ last' = Call("delete", versions[v], key, r)
    /\ nops' = nops + 1

----------------------------------------------------------------------------
(* struct Heap<T> { data: Vec<T> }.  Vec indices start at 0, the indices   *)
(* of a TLA+ sequence at 1: At(d, i) is d[i] of the source.                *)

\* values pushed are 1..MaxVal
MaxVal == 2
\* from_vec is given a vector of at most MaxVec elements
MaxVec == 3
\* number of push calls in a behaviour
MaxPush == 2

Vals == 1..MaxVal

At(d, i) == d[i + 1]

\* swap, writing d[j] to d[i] and leaving d[j] as it was
swap_overwrites(d, i, j) ==
    [k \in 1..Len(d) |-> IF k = i + 1 THEN d[j + 1] ELSE d[k]]

\* Vec::swap
swap(d, i, j) ==
    [k \in 1..Len(d) |-> IF k = i + 1 THEN d[j + 1]
                         ELSE IF k = j + 1 THEN d[i + 1]
                         ELSE d[k]]

\* swap_remove(0) that returns the first element but drops the last one
swap_remove_drops_last(d) ==
    [value |-> d[1],
     data  |-> SubSeq(d, 1, Len(d) - 1)]

\* Vec::swap_remove(0) on a non-empty vector: the last element takes the
\* place of the first, which is returned
swap_remove_first(d) ==
    [value |-> d[1],
     data  |-> IF Len(d) = 1 THEN <<>>
               ELSE <<d[Len(d)]>> \o SubSeq(d, 2, Len(d) - 1)]

\* parent, as the node just before in the backing vector
parent_predecessor(node) == node - 1

\* parent, as for a heap whose root is at index 1
parent_of_one_based(node) == node \div 2

parent(node) == (node - 1) \div 2

children(node) == <<node * 2 + 1, node * 2 + 2>>

\* What one call of trickle_up or trickle_down did, recursive calls included:
\* the vector it left, the positions it indexed, the arguments it gave to
\* parent, the swaps it made, the nodes it was called on in turn, and
\* whether an index out of bounds (a panic of Vec) ended it.
Halt(d) ==
    [data |-> d, reads |-> {}, parents |-> {}, swaps |-> 0, path |-> <<>>,
     fault |-> FALSE]

IndexPanic(d) == [Halt(d) EXCEPT !.fault = TRUE]

\* the call on node, which indexed reads, evaluated parent on parents, and
\* went on as rest
Visit(node, reads, parents, swapped, rest) ==
    [data    |-> rest.data,
     reads   |-> reads \cup rest.reads,
     parents |-> parents \cup rest.parents,
     swaps   |-> rest.swaps + (IF swapped THEN 1 ELSE 0),
     path    |-> <<node>> \o rest.path,
     fault   |-> rest.fault]

\* self.data[i] does not panic
InBounds(d, i) == 0 <= i /\ i < Len(d)

\* trickle_up without the test for the root: parent is evaluated on node 0,
\* where node - 1 overflows, and the index it gives is out of bounds
RECURSIVE trickle_up_run_unguarded(_, _)
trickle_up_run_unguarded(d, node) ==
    LET p == parent(node)
    IN  IF ~(InBounds(d, p) /\ InBounds(d, node))
        THEN Visit(node, {p, node}, {node}, FALSE, IndexPanic(d))
        ELSE IF At(d, p) < At(d, node)
        THEN Visit(node, {p, node}, {node}, TRUE,
                   trickle_up_run_unguarded(swap(d, p, node), p))
        ELSE Visit(node, {p, node}, {node}, FALSE, Halt(d))

RECURSIVE trickle_up_run(_, _)
trickle_up_run(d, node) ==
    IF node = 0 THEN Visit(node, {}, {}, FALSE, Halt(d))
    ELSE LET p == parent(node)
         IN  IF ~(InBounds(d, p) /\ InBounds(d, node))
             THEN Visit(node, {p, node}, {node}, FALSE, IndexPanic(d))
             ELSE IF At(d, p) < At(d, node)
             THEN Visit(node, {p, node}, {node}, TRUE,
                        trickle_up_run(swap(d, p, node), p))
             ELSE Visit(node, {p, node}, {node}, FALSE, Halt(d))

trickle_up(d, node) == trickle_up_run(d, node).data

\* trickle_down, descending to the smaller child
RECURSIVE trickle_down_smaller_child(_, _)
trickle_down_smaller_child(d, node) ==
    LET l == children(node)[1]
        r == children(node)[2]
    IN  IF l >= Len(d) THEN d
        ELSE LET child == IF r >= Len(d) THEN l
                          ELSE IF At(d, l) < At(d, r) THEN l
                          ELSE r
             IN  IF At(d, node) < At(d, child)
                 THEN trickle_down_smaller_child(swap(d, child, node), child)
                 ELSE d

\* trickle_down that returns only when the left child is beyond the length
RECURSIVE trickle_down_run_off_by_one(_, _)
trickle_down_run_off_by_one(d, node) ==
    LET l == children(node)[1]
        r == children(node)[2]
    IN  IF l > Len(d) THEN Visit(node, {}, {}, FALSE, Halt(d))
        ELSE LET idx   == IF r >= Len(d) THEN {l, node} ELSE {l, r, node}
                 child == IF r >= Len(d) THEN l
                          ELSE IF At(d, l) > At(d, r) THEN l
                          ELSE r
             IN  IF \E i \in idx : ~InBounds(d, i)
                 THEN Visit(node, idx, {}, FALSE, IndexPanic(d))
                 ELSE IF At(d, node) < At(d, child)
                 THEN Visit(node, idx, {}, TRUE,
                            trickle_down_run_off_by_one(swap(d, child, node), child))
                 ELSE Visit(node, idx, {}, FALSE, Halt(d))

RECURSIVE trickle_down_run(_, _)
trickle_down_run(d, node) ==
    LET l == children(node)[1]
        r == children(node)[2]
    IN  IF l >= Len(d) THEN Visit(node, {}, {}, FALSE, Halt(d))
        ELSE LET idx   == IF r >= Len(d) THEN {l, node} ELSE {l, r, node}
                 child == IF r >= Len(d) THEN l
                          ELSE IF At(d, l) > At(d, r) THEN l
                          ELSE r
             IN  IF \E i \in idx : ~InBounds(d, i)
                 THEN Visit(node, idx, {}, FALSE, IndexPanic(d))
                 ELSE IF At(d, node) < At(d, child)
                 THEN Visit(node, idx, {}, TRUE,
                            trickle_down_run(swap(d, child, node), child))
                 ELSE Visit(node, idx, {}, FALSE, Halt(d))

trickle_down(d, node) == trickle_down_run(d, node).data

\* for i in 1..heap.data.len() { heap.trickle_up(i) }, from index i on
RECURSIVE from_vec_loop(_, _)
from_vec_loop(d, i) ==
    IF i >= Len(d) THEN d
    ELSE from_vec_loop(trickle_up(d, i), i + 1)

\* from_vec by sifting down from the last parent to the root (heapify)
RECURSIVE heapify_loop(_, _)
heapify_loop(d, i) ==
    IF i < 0 THEN d
    ELSE heapify_loop(trickle_down(d, i), i - 1)

from_vec_heapify(v) == heapify_loop(v, (Len(v) \div 2) - 1)

from_vec(v) == from_vec_loop(v, 1)

push(d, item) == trickle_up(Append(d, item), Len(d))

\* What a heap call returns: () for push, Option<T> for pop
Unit == [kind |-> "unit"]
NoValue == [kind |-> "none"]
SomeValue(x) == [kind |-> "some", value |-> x]

\* The calls of trickle_up and trickle_down a call of from_vec, push or pop
\* makes, in order: the function called, its argument, the length of the
\* vector it was called on, and what it did
SiftCall(fn, d, node, run) ==
    [fn |-> fn, node |-> node, len |-> Len(d), run |-> run]

RECURSIVE from_vec_sifts(_, _)
from_vec_sifts(d, i) ==
    IF i >= Len(d) THEN <<>>
    ELSE <<SiftCall("trickle_up", d, i, trickle_up_run(d, i))>>
         \o from_vec_sifts(trickle_up(d, i), i + 1)

push_sifts(d, item) ==
    <<SiftCall("trickle_up", Append(d, item), Len(d),
               trickle_up_run(Append(d, item), Len(d)))>>

pop_sifts(d) ==
    IF d = <<>> THEN <<>>
    ELSE LET sr == swap_remove_first(d)
         IN  <<SiftCall("trickle_down", sr.data, 0, trickle_down_run(sr.data, 0))>>

\* pop without the emptiness test: swap_remove(0) panics on an empty vector
pop_unchecked(d) ==
    IF d = <<>> THEN [value |-> [kind |-> "panic"], data |-> d]
    ELSE LET sr == swap_remove_first(d)
         IN  [value |-> SomeValue(sr.value), data |-> trickle_down(sr.data, 0)]

\* pop: the Option returned and the vector left
pop(d) ==
    IF d = <<>> THEN [value |-> NoValue, data |-> d]
    ELSE LET sr == swap_remove_first(d)
         IN  [value |-> SomeValue(sr.value), data |-> trickle_down(sr.data, 0)]

VARIABLES
    data,       \* the heap's backing vector
    input,      \* the vector the heap was built from
    returned,   \* what the last call returned
    drained,    \* the values popped since construction or the last push
    before,     \* the backing vector at construction or after the last push
    npush,      \* number of push calls made
    given,      \* bag of the elements handed to from_vec and to push
    taken,      \* bag of the elements pop has returned
    sifts       \* the trickle_up / trickle_down calls of the last call

heapVars ==
    <<data, input, returned, drained, before, npush, given, taken, sifts>>

\* the elements of a vector, with their multiplicities
Contents(d) ==
    [x \in {d[i] : i \in 1..Len(d)} |-> Cardinality({i \in 1..Len(d) : d[i] = x})]

\* the vectors of the repository's tests
TestVec5 == <<1, 3, 5, 4, 2>>
TestVec6 == <<1, 3, 2, 7, 9, 5>>
TestVec8 == <<1, 3, 5, 4, 2, 6, 7, 8>>

InputVecs ==
    UNION {[1..n -> Vals] : n \in 0..MaxVec} \cup {TestVec5, TestVec6, TestVec8}

\* Heap::from_vec(v); Heap::new() is from_vec of the empty vector
InitHeap ==
    \E v \in InputVecs :
        /\ input = v
        /\ data = from_vec(v)
        /\ returned = Unit
        /\ drained = <<>>
        /\ before = from_vec(v)
        /\ npush = 0
        /\ given = Contents(v)
        /\ taken = EmptyBag
        /\ sifts = from_vec_sifts(v, 1)

PushCall(item) ==
    /\ npush < MaxPush
    /\ data' = push(data, item)
    /\ returned' = Unit
    /\ drained' = <<>>
    /\ before' = push(data, item)
    /\ npush' = npush + 1
    /\ given' = given (+) SetToBag({item})
    /\ sifts' = push_sifts(data, item)
    /\ UNCHANGED <<input, taken>>

PopCall ==
    LET r == pop(data)
    IN  /\ data' = r.data
        /\ returned' = r.value
        /\ drained' = IF r.value.kind = "some"
                      THEN Append(drained, r.value.value)
                      ELSE drained
        /\ taken' = IF r.value.kind = "some"
                    THEN taken (+) SetToBag({r.value.value})
                    ELSE taken
        /\ sifts' = pop_sifts(data)
        /\ UNCHANGED <<input, before, npush, given>>

----------------------------------------------------------------------------
(* Specifications.  The two structures share no state: each specification  *)
(* runs one of them and leaves the other as constructed.                   *)

vars == <<treeVars, heapVars>>

NoTreeYet ==
    /\ store = <<>>
    /\ versions = <<new>>
    /\ hist = << <<>> >>
    /\ last = NoCall
    /\ nops = 0
    /\ panicked = FALSE

NoHeapYet ==
    /\ data = <<>>
    /\ input = <<>>
    /\ returned = Unit
    /\ drained = <<>>
    /\ before = <<>>
    /\ npush = 0
    /\ given = EmptyBag
    /\ taken = EmptyBag
    /\ sifts = <<>>

Insert ==
    /\ \E v \in 1..Len(versions), item \in Items : InsertCall(v, item)
    /\ UNCHANGED heapVars

\* delete is called with the keys, and with the key the test deletes
DeleteKeys == Keys \cup {TestTreeKeys[1]}

Delete ==
    /\ \E v \in 1..Len(versions), key \in DeleteKeys : DeleteCall(v, key)
    /\ UNCHANGED heapVars

\* the tree over totally ordered keys
Init == InitOver(Keys) /\ NoHeapYet

Next == Insert \/ Delete

Spec == Init /\ [][Next]_vars

InsertPartial ==
    /\ \E v \in 1..Len(versions), item \in PartialItems : InsertCall(v, item)
    /\ UNCHANGED heapVars

DeletePartial ==
    /\ \E v \in 1..Len(versions), key \in PartialKeys : DeleteCall(v, key)
    /\ UNCHANGED heapVars

\* the tree over keys of which one is unordered with all
InitPartial == InitOver(PartialKeys) /\ NoHeapYet

NextPartial == InsertPartial \/ DeletePartial

SpecPartial == InitPartial /\ [][NextPartial]_vars

Push ==
    /\ \E item \in Vals : PushCall(item)
    /\ UNCHANGED treeVars

Pop ==
    /\ PopCall
    /\ UNCHANGED treeVars

\* the heap
HeapInit == InitHeap /\ NoTreeYet

HeapNext == Push \/ Pop

SpecHeap == HeapInit /\ [][HeapNext]_vars

\* either structure: a program that uses a tree, or one that uses a heap
InitAll == Init \/ HeapInit

NextAll ==
    \/ NoHeapYet /\ Insert
    \/ NoHeapYet /\ Delete
    \/ NoTreeYet /\ Push
    \/ NoTreeYet /\ Pop

SpecAll == InitAll /\ [][NextAll]_vars

----------------------------------------------------------------------------
(* What a tree value holds, read off the store *)

\* the nodes of tree t
RECURSIVE NodesOf(_, _)
NodesOf(s, t) ==
    IF t = Empty THEN {}
    ELSE {t} \cup NodesOf(s, s[t].left) \cup NodesOf(s, s[t].right)

ItemsOf(s, t) == {s[n].item : n \in NodesOf(s, t)}

KeysOf(s, t) == {s[n].item.key : n \in NodesOf(s, t)}

\* the number of node positions of tree t
RECURSIVE Count(_, _)
Count(s, t) ==
    IF t = Empty THEN 0
    ELSE 1 + Count(s, s[t].left) + Count(s, s[t].right)

\* tree t as a value: its shape and the item at every position
RECURSIVE Unfold(_, _)
Unfold(s, t) ==
    IF t = Empty THEN <<>>
    ELSE <<s[t].item, Unfold(s, s[t].left), Unfold(s, s[t].right)>>

\* the node of tree t whose item has key k (Empty when there is none)
NodeWithKey(s, t, k) ==
    IF k \in KeysOf(s, t)
    THEN CHOOSE n \in NodesOf(s, t) : s[n].item.key = k
    ELSE Empty

TwoChildren(s, n) == n # Empty /\ s[n].left # Empty /\ s[n].right # Empty

Deletes(h) == {i \in 1..Len(h) : h[i][1] = "delete"}

----------------------------------------------------------------------------
(* C1: BST order invariant.  In every tree value reachable from new() by   *)
(* insert and successful delete calls over totally ordered items, every    *)
(* item in a node's left subtree compares less than the node's item and    *)
(* every item in its right subtree compares greater.                       *)

Ordered(s, t) ==
    \A n \in NodesOf(s, t) :
        /\ \A x \in ItemsOf(s, s[n].left) :
               PartialCmp(x.key, s[n].item.key) = "Less"
        /\ \A x \in ItemsOf(s, s[n].right) :
               PartialCmp(x.key, s[n].item.key) = "Greater"

C1_OrderInvariant == \A v \in 1..Len(versions) : Ordered(store, versions[v])

\* a version derived by inserts and a delete that took the two-children arm
\* with a successor below the right child
C1_Witness ==
    /\ last.op = "delete" /\ last.outcome = "some"
    /\ LET n == NodeWithKey(store, last.src, last.arg)
       IN  /\ TwoChildren(store, n)
           /\ store[store[n].right].left # Empty
    /\ \E m \in NodesOf(store, last.tree) : TwoChildren(store, m)

----------------------------------------------------------------------------
(* C2: Delete correctness.  For a key equal to an item of the tree, delete *)
(* returns a tree whose items are those of the original minus that item:   *)
(* find of the key on the result returns nothing, find of every other item *)
(* still returns it, and one node position less is held; also when the     *)
(* deleted node is an interior node with two children below the root.      *)

C2_DeleteCorrect ==
    (last.op = "delete" /\ last.arg \in KeysOf(store, last.src)) =>
        /\ last.outcome = "some"
        /\ ItemsOf(store, last.tree) =
               ItemsOf(store, last.src) \ {find(store, last.src, last.arg)}
        /\ Count(store, last.tree) = Count(store, last.src) - 1
        /\ find(store, last.tree, last.arg) = None
        /\ \A x \in ItemsOf(store, last.src) :
               x.key # last.arg => find(store, last.tree, x.key) = x

\* the deleted node has two children and is not the root
C2_Witness ==
    /\ last.op = "delete" /\ last.outcome = "some"
    /\ LET n == NodeWithKey(store, last.src, last.arg)
       IN  TwoChildren(store, n) /\ n # last.src

----------------------------------------------------------------------------
(* C3: Persistence.  No call mutates an existing node: across every call   *)
(* each node already allocated is unchanged and each version already held  *)
(* is the same tree value, with the same shape and items, so find on it    *)
(* returns what it returned before for every key.                          *)

----------------------------------------------------------------------------
(* C4: Heap invariant.  After from_vec on any input and after any sequence *)
(* of push and pop calls, the element at every non-root index i of the     *)
(* backing vector is less than or equal to the element at index (i-1)/2.   *)

HeapOrdered(d) ==
    \A i \in 1..(Len(d) - 1) : At(d, i) <= At(d, (i - 1) \div 2)

C4_HeapInvariant == HeapOrdered(data)

\* tests::heap_property_restored_after_pop
C4_Witness ==
    /\ input = TestVec8
    /\ npush = 0
    /\ drained = <<8>>
    /\ data = <<7, 4, 6, 1, 2, 3, 5>>

----------------------------------------------------------------------------
(* C5: Max extraction order.  pop on a non-empty heap returns an element   *)
(* greater than or equal to every element remaining, so the values popped  *)
(* in a row are in non-increasing order and, once the heap is empty, are   *)
(* all the elements the heap held: 8,7,6,5,4,3,2,1 for the heap built from *)
(* [1,3,5,4,2,6,7,8].                                                      *)

NonIncreasing(q) == \A i \in 1..(Len(q) - 1) : q[i] >= q[i + 1]

Occurrences(q, x) == Cardinality({i \in 1..Len(q) : q[i] = x})

SameElements(p, q) ==
    /\ Len(p) = Len(q)
    /\ \A i \in 1..Len(p) : Occurrences(p, p[i]) = Occurrences(q, p[i])

C5_MaxExtraction ==
    /\ returned.kind = "some" =>
           \A i \in 1..Len(data) : data[i] <= returned.value
    /\ NonIncreasing(drained)
    /\ data = <<>> => SameElements(drained, before)
    /\ (input = TestVec8 /\ npush = 0 /\ data = <<>>) =>
           drained = <<8, 7, 6, 5, 4, 3, 2, 1>>

\* the heap built from [1,3,5,4,2,6,7,8] popped until it is empty
C5_Witness ==
    /\ input = TestVec8
    /\ npush = 0
    /\ data = <<>>
    /\ returned = SomeValue(1)
    /\ Len(drained) = 8

----------------------------------------------------------------------------
(* C6: Round trip.  For a tree built from the empty tree by inserting      *)
(* items of pairwise distinct keys in any order, find of each inserted     *)
(* item returns that item and find of a key never inserted returns         *)
(* nothing; so does find of any key on the empty tree.                     *)

DistinctInsertsOnly(h) ==
    /\ Deletes(h) = {}
    /\ \A i, j \in 1..Len(h) : i # j => h[i][2].key # h[j][2].key

C6_RoundTrip ==
    \A v \in 1..Len(versions) :
        DistinctInsertsOnly(hist[v]) =>
            /\ \A i \in 1..Len(hist[v]) :
                   find(store, versions[v], hist[v][i][2].key) = hist[v][i][2]
            /\ \A k \in Keys :
                   (\A i \in 1..Len(hist[v]) : hist[v][i][2].key # k) =>
                       find(store, versions[v], k) = None

\* an insert call has returned a tree of three distinct inserts and more,
\* with keys on both sides of the root, and a key that was never inserted
C6_Witness ==
    \E v \in 1..Len(versions) :
        /\ last.op = "insert" /\ last.outcome = "some" /\ versions[v] = last.tree
        /\ DistinctInsertsOnly(hist[v])
        /\ Len(hist[v]) >= 3
        /\ TwoChildren(store, versions[v])
        /\ \E k \in Keys : k \notin KeysOf(store, versions[v])

----------------------------------------------------------------------------
(* C7: delete with an unordered comparison.  As claimed: delete(key)       *)
(* returns nothing, as for an absent key, when the comparison between the  *)
(* key and the item of a node on the search path is unordered.  The code   *)
(* reaches todo!() there, so the statement that holds is: delete(key)      *)
(* panics, and returns no value at all, when that comparison is unordered. *)

\* the search for key in tree t meets a node whose item is unordered with it
RECURSIVE UnorderedOnPath(_, _, _)
UnorderedOnPath(s, t, key) ==
    /\ t # Empty
    /\ LET c == PartialCmp(s[t].item.key, key)
       IN  \/ c = "None"
           \/ c = "Greater" /\ UnorderedOnPath(s, s[t].left, key)
           \/ c = "Less" /\ UnorderedOnPath(s, s[t].right, key)

DeleteUnordered ==
    last.op = "delete" /\ UnorderedOnPath(store, last.src, last.arg)

\* the claim as made
C7_ReturnsNothing == DeleteUnordered => last.outcome = "none"

\* the claim as amended
C7_Panics == DeleteUnordered => (last.outcome = "panic" /\ panicked)

\* delete of the unordered key on a tree of several nodes
C7_Witness ==
    /\ DeleteUnordered
    /\ last.arg = NaN
    /\ Count(store, last.src) >= 2
    /\ last.outcome = "panic"

----------------------------------------------------------------------------
(* C8: Under a total order, delete returns nothing exactly when no item of *)
(* the tree equals the key, every delete on the empty tree included; for a *)
(* present key it returns a tree, so the removal of the in-order successor *)
(* inside the two-children case never returns nothing.                     *)

C8_NoneIffAbsent ==
    last.op = "delete" =>
        /\ last.outcome \in {"some", "none"}
        /\ last.outcome = "none" <=> last.arg \notin KeysOf(store, last.src)
        /\ last.src = Empty => last.outcome = "none"

\* delete of the root of a tree whose root has two children
C8_Witness ==
    /\ last.op = "delete"
    /\ TwoChildren(store, last.src)
    /\ store[last.src].item.key = last.arg
    /\ last.outcome = "some"

----------------------------------------------------------------------------
(* C9: Structural sharing on insert.  insert allocates new nodes only for  *)
(* the nodes on the search path from the root to the insertion point, plus *)
(* the new leaf when the key is absent; every other node of the new tree   *)
(* is the identical node of the old tree, and the sibling subtree at each  *)
(* step of the path is shared, not copied.                                 *)

\* the nodes of tree t that the search for key k visits, root first
RECURSIVE SearchPath(_, _, _)
SearchPath(s, t, k) ==
    IF t = Empty THEN <<>>
    ELSE IF k < s[t].item.key THEN <<t>> \o SearchPath(s, s[t].left, k)
    ELSE IF k > s[t].item.key THEN <<t>> \o SearchPath(s, s[t].right, k)
    ELSE <<t>>

Range(q) == {q[i] : i \in 1..Len(q)}

\* the nodes allocated by the last call
Fresh == (last.base + 1)..Len(store)

C9_InsertShares ==
    (last.op = "insert" /\ last.outcome = "some") =>
        LET k       == last.arg.key
            oldPath == SearchPath(store, last.src, k)
            newPath == SearchPath(store, last.tree, k)
            absent  == k \notin KeysOf(store, last.src)
        IN  /\ Cardinality(Fresh) = Len(oldPath) + (IF absent THEN 1 ELSE 0)
            /\ Range(newPath) = Fresh
            /\ NodesOf(store, last.tree) \ Fresh =
                   NodesOf(store, last.src) \ Range(oldPath)
            /\ \A i \in 1..Len(oldPath) :
                   LET old == store[oldPath[i]]
                       nw  == store[newPath[i]]
                   IN  /\ k <= old.item.key => nw.right = old.right
                       /\ k >= old.item.key => nw.left = old.left

\* an absent key inserted two levels down, past two non-empty siblings
C9_Witness ==
    /\ last.op = "insert" /\ last.outcome = "some"
    /\ last.arg.key \notin KeysOf(store, last.src)
    /\ LET oldPath == SearchPath(store, last.src, last.arg.key)
       IN  /\ Len(oldPath) = 2
           /\ TwoChildren(store, oldPath[1])
           /\ NodesOf(store, last.tree) \ Fresh # {}

----------------------------------------------------------------------------
(* C10: Equal-key replace.  Inserting an item that compares equal to an    *)
(* item already in the tree, at the root or below, yields a tree of the    *)
(* same shape in which the matching node holds the new item, every other   *)
(* node's item is unchanged and the matching node's two subtrees are kept; *)
(* the number of items does not grow.                                      *)

\* tree t as a value, with item in the place of the item of equal key
RECURSIVE UnfoldReplacing(_, _, _)
UnfoldReplacing(s, t, item) ==
    IF t = Empty THEN <<>>
    ELSE <<IF s[t].item.key = item.key THEN item ELSE s[t].item,
           UnfoldReplacing(s, s[t].left, item),
           UnfoldReplacing(s, s[t].right, item)>>

C10_EqualReplace ==
    (last.op = "insert" /\ last.arg.key \in KeysOf(store, last.src)) =>
        LET old == NodeWithKey(store, last.src, last.arg.key)
            nw  == NodeWithKey(store, last.tree, last.arg.key)
        IN  /\ last.outcome = "some"
            /\ Unfold(store, last.tree) =
                   UnfoldReplacing(store, last.src, last.arg)
            /\ store[nw].item = last.arg
            /\ store[nw].left = store[old].left
            /\ store[nw].right = store[old].right
            /\ Count(store, last.tree) = Count(store, last.src)

\* an item of another payload replaces one below the root that has a child
C10_Witness ==
    /\ last.op = "insert" /\ last.outcome = "some"
    /\ last.arg.key \in KeysOf(store, last.src)
    /\ LET old == NodeWithKey(store, last.src, last.arg.key)
       IN  /\ old # last.src
           /\ store[old].item # last.arg
           /\ store[old].left # Empty \/ store[old].right # Empty

----------------------------------------------------------------------------
(* C11: Successor splice.  Deleting a key whose node has two non-empty     *)
(* subtrees yields, at that node's position, a node holding the smallest   *)
(* item of the original right subtree, whose left subtree is the original  *)
(* left subtree unchanged and whose right subtree is the original right    *)
(* subtree with that smallest item removed; deleting 50 from the tree      *)
(* built by 50,25,75,10,40,60,90 gives root 60, left {25,10,40}, right     *)
(* {75,90}.                                                                *)

\* the item of least key among the items of tree t
LeastItem(s, t) ==
    CHOOSE x \in ItemsOf(s, t) : \A y \in ItemsOf(s, t) : x.key <= y.key

\* an unfolded tree without its leftmost node, whose right subtree takes
\* its place
RECURSIVE WithoutLeftmost(_)
WithoutLeftmost(u) ==
    IF u[2] = <<>> THEN u[3]
    ELSE <<u[1], WithoutLeftmost(u[2]), u[3]>>

\* tree t as a value, with the two-children node of key k spliced
RECURSIVE UnfoldSpliced(_, _, _)
UnfoldSpliced(s, t, k) ==
    IF s[t].item.key = k
    THEN <<LeastItem(s, s[t].right),
           Unfold(s, s[t].left),
           WithoutLeftmost(Unfold(s, s[t].right))>>
    ELSE IF k < s[t].item.key
    THEN <<s[t].item, UnfoldSpliced(s, s[t].left, k), Unfold(s, s[t].right)>>
    ELSE <<s[t].item, Unfold(s, s[t].left), UnfoldSpliced(s, s[t].right, k)>>

DeletedTwoChildren ==
    /\ last.op = "delete"
    /\ TwoChildren(store, NodeWithKey(store, last.src, last.arg))

TestTreeDeleted ==
    /\ last.op = "delete" /\ last.arg = TestTreeKeys[1]
    /\ hist[1] = [i \in 1..Len(TestTreeKeys) |->
                     <<"insert", Item(TestTreeKeys[i], "a")>>]
    /\ last.src = versions[1]

C11_SuccessorSplice ==
    /\ DeletedTwoChildren =>
           LET old == NodeWithKey(store, last.src, last.arg)
               x   == LeastItem(store, store[old].right)
               nw  == NodeWithKey(store, last.tree, x.key)
           IN  /\ last.outcome = "some"
               /\ Unfold(store, last.tree) =
                      UnfoldSpliced(store, last.src, last.arg)
               /\ store[nw].item = x
               /\ store[nw].left = store[old].left
               /\ ItemsOf(store, store[nw].right) =
                      ItemsOf(store, store[old].right) \ {x}
    /\ TestTreeDeleted =>
           /\ store[last.tree].item.key = 60
           /\ KeysOf(store, store[last.tree].left) = {25, 10, 40}
           /\ KeysOf(store, store[last.tree].right) = {75, 90}
           /\ LET expected == Build([i \in 1..6 |->
                                 Item(<<60, 25, 75, 10, 40, 90>>[i], "a")])
              IN  Unfold(store, last.tree) =
                      Unfold(expected.store, expected.tree)

\* tests::delete_root_of_deep_tree
C11_Witness ==
    /\ TestTreeDeleted
    /\ DeletedTwoChildren
    /\ last.outcome = "some"
    /\ store[last.tree].item.key = 60

----------------------------------------------------------------------------
(* C12: from_vec on any input sequence returns a heap whose backing vector *)
(* satisfies the heap invariant and is a permutation of the input: the     *)
(* same elements with the same multiplicities, the same length; from_vec   *)
(* of the empty sequence gives an empty heap.                              *)

\* the heap is as from_vec returned it: no push or pop has been called
JustBuilt == returned = Unit /\ npush = 0

C12_FromVec ==
    JustBuilt =>
        /\ HeapOrdered(data)
        /\ SameElements(data, input)
        /\ Len(data) = Len(input)
        /\ input = <<>> => data = <<>>

\* from_vec of the vector of tests::pop_largest_value_from_heap, which it
\* has to reorder
C12_Witness ==
    /\ JustBuilt
    /\ input = TestVec5
    /\ data # input
    /\ data[1] = 5

----------------------------------------------------------------------------
(* C13: Insert-then-delete round trip.  For every tree t and every item x  *)
(* not present in t, t.insert(x).delete(x) returns a tree structurally     *)
(* equal to t: the same shape and the same item at every position; for the *)
(* empty tree it returns the empty tree.                                   *)

\* version v is t.insert(x) for an x absent from t, and the last call is
\* delete(x) on it
DeletedWhatWasInserted(v) ==
    /\ last.op = "delete" /\ last.src = versions[v]
    /\ hist[v] # <<>>
    /\ LET c == hist[v][Len(hist[v])]
           t == Replay(SubSeq(hist[v], 1, Len(hist[v]) - 1))
       IN  /\ c[1] = "insert"
           /\ c[2].key = last.arg
           /\ c[2].key \notin KeysOf(t.store, t.tree)

C13_InsertThenDelete ==
    \A v \in 1..Len(versions) :
        DeletedWhatWasInserted(v) =>
            LET t == Replay(SubSeq(hist[v], 1, Len(hist[v]) - 1))
            IN  /\ last.outcome = "some"
                /\ Unfold(store, last.tree) = Unfold(t.store, t.tree)
                /\ t.tree = Empty => last.tree = Empty

\* x was inserted below the root of a tree of two nodes and more, to the
\* left of its parent, and deleted again
C13_Witness ==
    \E v \in 1..Len(versions) :
        /\ DeletedWhatWasInserted(v)
        /\ last.outcome = "some"
        /\ Count(store, last.tree) >= 2
        /\ \E n \in NodesOf(store, last.src) :
               /\ store[n].left # Empty
               /\ store[store[n].left].item.key = last.arg
               /\ n # last.src

----------------------------------------------------------------------------
(* C14: Insert placement.  Inserting an item x that is not equal to the    *)
(* root item r of a non-empty tree leaves the root item unchanged, so that *)
(* under inserts alone the first inserted item stays at the root; x is     *)
(* placed in the left subtree when x < r and in the right subtree when     *)
(* x > r, and the other subtree is unchanged.  Inserting 2, 1, 3 gives     *)
(* root 2, left child 1, right child 3.                                    *)

KeysInserted(h) == [i \in 1..Len(h) |-> h[i][2].key]

C14_InsertPlacement ==
    /\ (/\ last.op = "insert"
        /\ last.src # Empty
        /\ last.arg.key # store[last.src].item.key) =>
           LET old == store[last.src]
               nw  == store[last.tree]
               x   == last.arg
           IN  /\ last.outcome = "some"
               /\ nw.item = old.item
               /\ x.key < old.item.key =>
                      /\ x \in ItemsOf(store, nw.left)
                      /\ nw.right = old.right
               /\ x.key > old.item.key =>
                      /\ x \in ItemsOf(store, nw.right)
                      /\ nw.left = old.left
    /\ \A v \in 1..Len(versions) :
           (Deletes(hist[v]) = {} /\ hist[v] # <<>>) =>
               /\ store[versions[v]].item.key = hist[v][1][2].key
               /\ (\A i \in 2..Len(hist[v]) :
                       hist[v][i][2].key # hist[v][1][2].key) =>
                      store[versions[v]].item = hist[v][1][2]
               /\ KeysInserted(hist[v]) = <<2, 1, 3>> =>
                      /\ store[versions[v]].item.key = 2
                      /\ store[store[versions[v]].left].item.key = 1
                      /\ store[store[versions[v]].right].item.key = 3

\* the insert of 3 into the tree built by inserting 2 and 1
C14_Witness ==
    /\ last.op = "insert" /\ last.outcome = "some"
    /\ last.arg.key = 3
    /\ Len(versions) = 2 /\ versions[2] = last.tree
    /\ KeysInserted(hist[2]) = <<2, 1, 3>>
    /\ store[last.tree].item.key = 2

----------------------------------------------------------------------------
(* C15: A pop on an empty heap returns nothing and leaves the heap empty,  *)
(* without a fault, wherever in a sequence of pushes and pops the heap has *)
(* been drained.                                                           *)

\* a step that is a call of pop: pushes are counted, pops are not
PopStep == npush' = npush

C15_PopOnEmpty ==
    [][(PopStep /\ data = <<>>) =>
           /\ data' = <<>>
           /\ returned' = NoValue
           /\ drained' = drained]_vars

\* a heap that was pushed to, popped until drained, and popped once more
C15_Witness ==
    /\ returned = NoValue
    /\ data = <<>>
    /\ npush >= 1
    /\ Len(drained) >= 1

----------------------------------------------------------------------------
(* C16: Building a heap with from_vec(v) gives the same backing vector,    *)
(* element for element, as pushing the elements of v in order onto an      *)
(* empty heap; [1, 3, 2, 7, 9, 5] gives [9, 7, 5, 1, 3, 2].                *)

\* Heap::new() followed by push(v[1]), ..., push(v[n])
RECURSIVE PushAll(_)
PushAll(v) ==
    IF v = <<>> THEN <<>>
    ELSE push(PushAll(SubSeq(v, 1, Len(v) - 1)), v[Len(v)])

C16_FromVecIsPushes ==
    /\ JustBuilt => data = PushAll(input)
    /\ (JustBuilt /\ input = TestVec6) => data = <<9, 7, 5, 1, 3, 2>>

\* the heap built from the vector of the test, which from_vec rearranged
C16_Witness ==
    /\ JustBuilt
    /\ input = TestVec6
    /\ data = PushAll(TestVec6)
    /\ data # input

----------------------------------------------------------------------------
(* C17: Heap content conservation.  The multiset of elements in the        *)
(* backing vector is the multiset of all elements supplied to from_vec and *)
(* push, minus those pop returned.  A push grows the length by exactly     *)
(* one; a pop that returns an element shrinks it by exactly one and        *)
(* removes one occurrence of the element returned; sifting only permutes.  *)

Conserved ==
    /\ Contents(data) (+) taken = given
    /\ Len(data) = BagCardinality(given) - BagCardinality(taken)

SiftingPermutes ==
    \A d \in {input, data} :
        \A i \in 0..(Len(d) - 1) :
            /\ Contents(trickle_up(d, i)) = Contents(d)
            /\ Contents(trickle_down(d, i)) = Contents(d)

PushGrows ==
    (npush' = npush + 1) =>
        /\ Len(data') = Len(data) + 1
        /\ \E item \in Vals : Contents(data') = Contents(data) (+) SetToBag({item})

PopShrinks ==
    (npush' = npush /\ returned'.kind = "some" /\ Len(drained') = Len(drained) + 1) =>
        /\ Len(data') = Len(data) - 1
        /\ Contents(data') (+) SetToBag({returned'.value}) = Contents(data)

C17_ContentConserved ==
    /\ [](Conserved /\ SiftingPermutes)
    /\ [][PushGrows /\ PopShrinks]_vars

\* a heap with a repeated element, pushed to and popped from
C17_Witness ==
    /\ npush >= 1
    /\ BagCardinality(taken) >= 2
    /\ \E x \in BagToSet(given) : CopiesIn(x, given) >= 2
    /\ data # <<>>
    /\ returned.kind = "some"

----------------------------------------------------------------------------
(* C18: Index safety.  In every push, pop and from_vec, on a heap of any   *)
(* size (0, 1 and 2 included), trickle_up and trickle_down index only      *)
(* positions strictly below the current length of the backing vector, and  *)
(* parent(node) is never evaluated with node = 0, so node - 1 does not     *)
(* underflow.                                                              *)

C18_IndexSafety ==
    \A k \in 1..Len(sifts) :
        LET c == sifts[k]
        IN  /\ ~c.run.fault
            /\ \A i \in c.run.reads : 0 <= i /\ i < c.len
            /\ 0 \notin c.run.parents
            /\ Len(c.run.data) = c.len

\* The calls at the edges: a pop that leaves two elements, where only the
\* left child of the root exists, and a from_vec that sifts node 1 up
C18_PopOfThree ==
    /\ Len(sifts) = 1
    /\ sifts[1].fn = "trickle_down"
    /\ sifts[1].len = 2
    /\ sifts[1].run.reads = {0, 1}
    /\ sifts[1].run.swaps = 1

C18_Witness ==
    /\ C18_PopOfThree
    /\ Len(data) = 2
    /\ npush >= 1

----------------------------------------------------------------------------
(* C19: Every operation terminates.  On a heap of n elements trickle_up    *)
(* from index i performs at most depth(i) swaps, and trickle_down visits   *)
(* strictly increasing indices until it stops.  On a finite tree under a   *)
(* total order find, insert, delete and smallest each finish after a       *)
(* number of recursive steps bounded by the depth of the tree, the removal *)
(* of the successor by delete included.                                    *)

\* the number of edges from the root of the heap to index i
RECURSIVE Depth(_)
Depth(i) == IF i = 0 THEN 0 ELSE 1 + Depth((i - 1) \div 2)

\* the number of nodes on the longest path from the root of t to a leaf
RECURSIVE Height(_, _)
Height(s, t) ==
    IF t = Empty THEN 0
    ELSE LET l == Height(s, s[t].left)
             r == Height(s, s[t].right)
         IN  1 + (IF l > r THEN l ELSE r)

StrictlyIncreasing(p) == \A j \in 1..(Len(p) - 1) : p[j] < p[j + 1]

SiftsBounded ==
    \A k \in 1..Len(sifts) :
        LET c == sifts[k]
        IN  /\ c.fn = "trickle_up" =>
                   /\ c.run.swaps <= Depth(c.node)
                   /\ Len(c.run.path) = c.run.swaps + 1
            /\ c.fn = "trickle_down" =>
                   /\ StrictlyIncreasing(c.run.path)
                   /\ \A j \in 1..Len(c.run.path) :
                          c.run.path[j] = 0 \/ c.run.path[j] < c.len
                   /\ Len(c.run.path) = c.run.swaps + 1

\* the tree the program got last: every tree it holds was this one when
\* it was made, and nodes never change
Newest == versions[Len(versions)]

TreeCallsBounded ==
    /\ LET t  == Newest
           h  == Height(store, t)
           ks == KeysOf(store, t)
       IN  /\ smallest_calls(store, t) <= (IF t = Empty THEN 1 ELSE h)
           /\ \A n \in NodesOf(store, t) :
                  smallest_calls(store, n) <= Height(store, n)
           /\ \A k \in DeleteKeys :
                  /\ find_calls(store, t, k) <= (IF k \in ks THEN h ELSE h + 1)
                  /\ delete_calls(store, t, k) <= (IF k \in ks THEN h ELSE h + 1)
                  /\ \A p \in Payloads :
                         insert_calls(store, t, Item(k, p)) <= h + 1
    \* the calls made: each entry of insert allocates one node, each entry of
    \* a delete that finds its key but the last one allocates one node
    /\ (last.op = "insert" /\ last.outcome = "some") =>
           /\ Cardinality(Fresh) = insert_calls(store, last.src, last.arg)
           /\ Cardinality(Fresh) <= Height(store, last.src) + 1
    /\ (last.op = "delete" /\ last.outcome = "some") =>
           /\ Cardinality(Fresh) + 1 = delete_calls(store, last.src, last.arg)
           /\ Cardinality(Fresh) + 1 <= Height(store, last.src)
    /\ (last.op = "delete" /\ last.outcome = "none") =>
           /\ Fresh = {}
           /\ delete_calls(store, last.src, last.arg) <= Height(store, last.src) + 1

C19_Terminates == SiftsBounded /\ TreeCallsBounded

\* a delete of a node with two children from a tree of depth 3 or more, which
\* went on to remove the successor and entered delete once per level
C19_Witness ==
    /\ last.op = "delete" /\ last.outcome = "some"
    /\ TwoChildren(store, NodeWithKey(store, last.src, last.arg))
    /\ Height(store, last.src) >= 3
    /\ delete_calls(store, last.src, last.arg) = Height(store, last.src)
    /\ Cardinality(Fresh) >= 2

=============================================================================
